---- MODULE Spec2Model ----
(***************************************************************************)
(* Activity tracker of the Miss-Minutes extension: the debounce of raw     *)
(* editor events (Tracker.handleActivity), the periodic sync loop          *)
(* (Tracker.syncLoop) that flushes the in-memory queue into the local      *)
(* database and pushes unsynced rows to the remote API, and the git commit *)
(* tracker (GitTracker).                                                   *)
(*                                                                         *)
(* Every `await` of the source is a step boundary: the code between two    *)
(* awaits is one atomic action, as on the single JavaScript thread.        *)
(***************************************************************************)
EXTENDS Integers, Sequences, FiniteSets, TLC

\* ------------------------------------------------------------------ bounds
MaxCalls == 3          \* raw editor events delivered in one behaviour
MaxRecords == 2        \* activity records emitted in a behaviour of the sync engine
MaxLoops == 2          \* sync iterations in flight plus timers outstanding
MaxCrashes == 1        \* process crashes in one behaviour
MaxGitTasks == 2       \* trackCommitChange / initializeProject calls in flight
MaxHeadChanges == 2    \* times the repository HEAD moves
MaxGitCalls == 3       \* trackCommitChange calls in one behaviour

\* ------------------------------------------------------- program constants
debounceInterval == 2000
maxIdleTime == 300000
LogBatchLimit == 50
CommitBatchLimit == 20

Undefined == "undefined"                 \* JavaScript undefined / null
NoTimer == 0                             \* syncTimer before the first setTimeout
Projects == {"/p", "/q"}                 \* project roots (workspace folders)
Hashes == {"a1", "b2"}                   \* commit hashes HEAD can hold
Gaps == {0, 1000, 1500, 2000, 2500, 300000}   \* ms between two raw events
SyncGaps == {2500}                       \* the same, for the sync specification
DetailQueries == {"message", "author", "email", "timestamp", "stat"}
DetailFailures == {{}} \cup {{q} : q \in DetailQueries}   \* no query fails, or one

VARIABLES
  \* Tracker fields
  isTracking, disposable, queue, syncTimer, lastActivityTime,
  \* the host: clock at the last Date.now(), pending timers, sync iterations
  now, timers, loop,
  \* the database (durable)
  activityTbl, commitTbl, nextLogId, nextCommitId,
  \* GitTracker fields, the repositories, the calls in flight
  currentCommit, head, workspaceFolders, watching, gitTask,
  \* history (not program state)
  calls, emitted, sinceStart, heldAtStop,
  ackedLogs, failedLogs, firstFailed, ackedCommits, handed, dropped,
  headChanges, gitRun, gitCalls, crashes, beforeCrash

trackerVars == <<isTracking, disposable, queue, syncTimer, lastActivityTime>>
hostVars == <<now, timers, loop>>
dbVars == <<activityTbl, commitTbl, nextLogId, nextCommitId>>
gitVars == <<currentCommit, head, workspaceFolders, watching, gitTask>>
evtHist == <<calls, emitted, sinceStart, heldAtStop>>
syncHist == <<ackedLogs, failedLogs, firstFailed, ackedCommits, handed, dropped>>
gitHist == <<headChanges, gitRun, gitCalls>>
histVars == <<evtHist, syncHist, gitHist, crashes, beforeCrash>>
vars == <<trackerVars, hostVars, dbVars, gitVars, histVars>>

\* ----------------------------------------------------------------- helpers
Range(s) == {s[i] : i \in 1..Len(s)}
Ids(s) == {s[i].id : i \in 1..Len(s)}
Min(a, b) == IF a < b THEN a ELSE b

\* the first n rows of a table (SELECT ... LIMIT n)
Take(s, n) == SubSeq(s, 1, Min(n, Len(s)))

\* the rows of a table whose id is not in ids (DELETE ... WHERE id IN ids)
RECURSIVE Without(_, _)
Without(s, ids) ==
  IF s = <<>> THEN <<>>
  ELSE IF Head(s).id \in ids THEN Without(Tail(s), ids)
       ELSE <<Head(s)>> \o Without(Tail(s), ids)

Loops == 1..MaxLoops
\* success is the result of the last submit of the iteration; owed is history: the
\* ids of the failed batches that were not acknowledged when logs was read; saved
\* and lost are history: the timestamps of the records of logsToSave whose insert
\* has returned and has thrown, kept until the flush is over
IdleLoop == [pc |-> "idle", logsToSave |-> <<>>, logs |-> <<>>, commits |-> <<>>,
             success |-> FALSE, owed |-> {}, saved |-> {}, lost |-> {}]
Live == Cardinality({l \in Loops : loop[l].pc # "idle"}) + Cardinality(timers)
FreeLoop == CHOOSE l \in Loops : loop[l].pc = "idle" /\ \A k \in Loops : loop[k].pc = "idle" => l <= k
NewTimer == CHOOSE t \in Loops : t \notin timers /\ \A u \in Loops \ timers : t <= u

\* ----------------------------------------------------- Tracker.handleActivity
\* (variant: only an event whose clock did not advance is discarded)
DebouncedSameInstant(timeDiff) == timeDiff <= 0

\* `if (timeDiff < this.debounceInterval) return;`
Debounced(timeDiff) == timeDiff < debounceInterval

\* (variant: the idle cut-off is not applied)
DurationOfNoIdle(last, timeDiff) == IF last # 0 THEN timeDiff ELSE 0

\* `if (this.lastActivityTime !== 0 && timeDiff < this.maxIdleTime) duration = timeDiff`
DurationOf(last, timeDiff) ==
  IF last # 0 /\ timeDiff < maxIdleTime THEN timeDiff ELSE 0

\* (variant: lastActivityTime is set only when a record is made)
LastActivityIfEditor(last, t, editor) == IF editor THEN t ELSE last

\* `this.lastActivityTime = now;` stands before `if (!editor) return;`
LastActivityAfter(last, t, editor) == t

\* One raw event (text change, selection change or save) reaching handleActivity
\* gap ms after the previous one; editor says whether there is an active editor.
HandleActivity(gap, editor) ==
  /\ disposable = "live"
  /\ Len(calls) < MaxCalls
  /\ LET t == now + gap
         timeDiff == t - lastActivityTime
         duration == DurationOf(lastActivityTime, timeDiff)
     IN /\ now' = t
        /\ calls' = Append(calls, [t |-> t, editor |-> editor])
        /\ IF Debounced(timeDiff)
           THEN UNCHANGED <<lastActivityTime, queue, emitted, sinceStart>>
           ELSE /\ lastActivityTime' = LastActivityAfter(lastActivityTime, t, editor)
                /\ IF editor
                   THEN /\ queue' = Append(queue, [timestamp |-> t, duration |-> duration])
                        /\ emitted' = Append(emitted,
                              [timestamp |-> t, duration |-> duration,
                               last |-> lastActivityTime, sinceStart |-> sinceStart])
                        /\ sinceStart' = sinceStart + 1
                   ELSE UNCHANGED <<queue, emitted, sinceStart>>
  /\ UNCHANGED <<isTracking, disposable, syncTimer, timers, loop>>
  /\ UNCHANGED <<dbVars, gitVars, heldAtStop, syncHist, gitHist, crashes, beforeCrash>>

\* ------------------------------------------------------------ Tracker.syncLoop
\* (variant: the queue is copied and not emptied)
SyncLoopEnterKeepsQueue(l) ==
  /\ loop' = [loop EXCEPT ![l] =
                IF queue # <<>>
                THEN [IdleLoop EXCEPT !.pc = "insertActivity", !.logsToSave = queue]
                ELSE [IdleLoop EXCEPT !.pc = "getUnsyncedLogs"]]
  /\ UNCHANGED queue

\* The synchronous head of syncLoop in iteration slot l: the queue is copied and
\* emptied with no await in between, then the first database call is awaited.
SyncLoopEnter(l) ==
  IF queue # <<>>
  THEN /\ loop' = [loop EXCEPT ![l] = [IdleLoop EXCEPT !.pc = "insertActivity",
                                                      !.logsToSave = queue]]
       /\ queue' = <<>>
  ELSE /\ loop' = [loop EXCEPT ![l] = [IdleLoop EXCEPT !.pc = "getUnsyncedLogs"]]
       /\ UNCHANGED queue

\* (variant: the iteration ends without setting a timer)
RescheduleNever(l) ==
  /\ loop' = [loop EXCEPT ![l] = IdleLoop]
  /\ UNCHANGED <<syncTimer, timers>>

\* `this.syncTimer = setTimeout(() => this.syncLoop(), this.syncInterval)`:
\* the last statement of every iteration that got past the isTracking check.
Reschedule(l) ==
  /\ loop' = [loop EXCEPT ![l] = IdleLoop]
  /\ syncTimer' = NewTimer
  /\ timers' = timers \cup {NewTimer}

\* Tracker.startTracking
StartTracking ==
  /\ ~isTracking
  /\ Live < MaxLoops
  /\ isTracking' = TRUE
  /\ disposable' = "live"
  /\ sinceStart' = 0
  /\ SyncLoopEnter(FreeLoop)
  /\ UNCHANGED <<syncTimer, lastActivityTime, now, timers>>
  /\ UNCHANGED <<dbVars, gitVars, calls, emitted, heldAtStop, syncHist, gitHist, crashes,
               beforeCrash>>

\* startTracking while tracking: `if (this.isTracking) return;`
StartTrackingAgain ==
  /\ isTracking
  /\ UNCHANGED vars

\* `if (this.syncTimer) clearTimeout(this.syncTimer)`
ClearTimeout(handle) == timers \ {handle}

\* (variant: stopTracking empties the queue)
StopTrackingDiscards ==
  /\ isTracking
  /\ isTracking' = FALSE
  /\ disposable' = IF disposable = "live" THEN "disposed" ELSE disposable
  /\ timers' = IF syncTimer # NoTimer THEN ClearTimeout(syncTimer) ELSE timers
  /\ queue' = <<>>
  /\ heldAtStop' = heldAtStop \cup {queue[i].timestamp : i \in 1..Len(queue)}
  /\ UNCHANGED <<syncTimer, lastActivityTime, now, loop>>
  /\ UNCHANGED <<dbVars, gitVars, calls, emitted, sinceStart, syncHist, gitHist, crashes,
               beforeCrash>>

\* Tracker.stopTracking
\* history: heldAtStop collects the timestamps of the records that were in the
\* queue at a stopTracking, until they are handed to insertActivity
StopTracking ==
  /\ isTracking
  /\ isTracking' = FALSE
  /\ disposable' = IF disposable = "live" THEN "disposed" ELSE disposable
  /\ timers' = IF syncTimer # NoTimer THEN ClearTimeout(syncTimer) ELSE timers
  /\ heldAtStop' = heldAtStop \cup {queue[i].timestamp : i \in 1..Len(queue)}
  /\ UNCHANGED <<queue, syncTimer, lastActivityTime, now, loop>>
  /\ UNCHANGED <<dbVars, gitVars, calls, emitted, sinceStart, syncHist, gitHist, crashes,
               beforeCrash>>

\* stopTracking while stopped: `if (!this.isTracking) return;`
StopTrackingAgain ==
  /\ ~isTracking
  /\ UNCHANGED vars

\* A timer set by syncLoop fires: `() => this.syncLoop()`; the iteration returns at
\* once when tracking is off.
TimerFire(t) ==
  /\ t \in timers
  /\ timers' = timers \ {t}
  /\ IF isTracking THEN SyncLoopEnter(FreeLoop) ELSE UNCHANGED <<loop, queue>>
  /\ UNCHANGED <<isTracking, disposable, syncTimer, lastActivityTime, now>>
  /\ UNCHANGED <<dbVars, gitVars, histVars>>

\* (variant: a record whose insert threw stays first in line)
RestAfterRetry(logsToSave, ok) == IF ok THEN Tail(logsToSave) ELSE logsToSave

\* `for (const log of logsToSave) { try { await insert } catch { log the error } }`:
\* the for loop goes on to the next record whether the insert returned or threw
RestAfter(logsToSave, ok) == Tail(logsToSave)

\* `await this.db.insertActivity(log)` returns or throws for the next record of
\* logsToSave; a throw is caught and logged, the record is not kept.
\* history: handed holds the timestamps of the records passed to insertActivity,
\* dropped those whose insert threw
InsertActivity(l, ok) ==
  /\ loop[l].pc = "insertActivity"
  /\ LET log == Head(loop[l].logsToSave)
         rest == RestAfter(loop[l].logsToSave, ok)
     IN /\ handed' = handed \cup {log.timestamp}
        /\ heldAtStop' = heldAtStop \ {log.timestamp}
        /\ dropped' = IF ok THEN dropped ELSE dropped \cup {log.timestamp}
        /\ IF ok
           THEN /\ activityTbl' = Append(activityTbl,
                     [id |-> nextLogId, timestamp |-> log.timestamp,
                      duration |-> log.duration])
                /\ nextLogId' = nextLogId + 1
           ELSE UNCHANGED <<activityTbl, nextLogId>>
        /\ loop' = [loop EXCEPT ![l].logsToSave = rest,
                                ![l].pc = IF rest = <<>> THEN "getUnsyncedLogs"
                                          ELSE "insertActivity",
                                ![l].saved = IF ok THEN @ \cup {log.timestamp} ELSE @,
                                ![l].lost = IF ok THEN @ ELSE @ \cup {log.timestamp}]
  /\ UNCHANGED <<trackerVars, now, timers, commitTbl, nextCommitId>>
  /\ UNCHANGED <<gitVars, calls, emitted, sinceStart, gitHist, crashes, beforeCrash>>
  /\ UNCHANGED <<ackedLogs, failedLogs, firstFailed, ackedCommits>>

\* `const logs = await this.db.getUnsyncedLogs(50)`; a throw goes to the catch of
\* the push block and the iteration reschedules.
GetUnsyncedLogs(l, ok) ==
  /\ loop[l].pc = "getUnsyncedLogs"
  /\ IF ok
     THEN LET logs == Take(activityTbl, LogBatchLimit)
          IN /\ loop' = [loop EXCEPT ![l].logs = logs,
                                     ![l].owed = failedLogs \ ackedLogs,
                                     ![l].saved = {},
                                     ![l].lost = {},
                                     ![l].pc = IF Len(logs) > 0 THEN "syncActivities"
                                               ELSE "getUnsyncedCommits"]
             /\ UNCHANGED <<syncTimer, timers>>
     ELSE Reschedule(l)
  /\ UNCHANGED <<isTracking, disposable, queue, lastActivityTime, now>>
  /\ UNCHANGED <<dbVars, gitVars, histVars>>

\* (variant: the delete runs whatever the submit returned)
DeleteAfterAlways(success) == TRUE

\* `if (success)` after syncActivities / syncCommits: only an acknowledged batch
\* goes on to the delete.
DeleteAfter(success) == success

\* (variant: a submit that returns false ends the iteration like a throw)
SyncActivitiesFalseEnds(l, success) ==
  /\ loop[l].pc = "syncActivities"
  /\ ackedLogs' = IF success THEN ackedLogs \cup Ids(loop[l].logs) ELSE ackedLogs
  /\ failedLogs' = IF success THEN failedLogs ELSE failedLogs \cup Ids(loop[l].logs)
  /\ firstFailed' = IF success THEN {}
                    ELSE IF firstFailed = {} THEN Ids(loop[l].logs) ELSE firstFailed
  /\ IF success
     THEN /\ loop' = [loop EXCEPT ![l].pc = "deleteLogs", ![l].success = success]
          /\ UNCHANGED <<syncTimer, timers>>
     ELSE Reschedule(l)
  /\ UNCHANGED <<isTracking, disposable, queue, lastActivityTime, now, dbVars, gitVars>>
  /\ UNCHANGED <<evtHist, ackedCommits, handed, dropped, gitHist, crashes, beforeCrash>>

\* `const success = await this.apiClient.syncActivities(logs)`: ApiClient returns
\* true when the request resolved and false when it threw; it never throws.
SyncActivities(l, success) ==
  /\ loop[l].pc = "syncActivities"
  /\ ackedLogs' = IF success THEN ackedLogs \cup Ids(loop[l].logs) ELSE ackedLogs
  /\ failedLogs' = IF success THEN failedLogs ELSE failedLogs \cup Ids(loop[l].logs)
  /\ firstFailed' = IF success THEN {}
                    ELSE IF firstFailed = {} THEN Ids(loop[l].logs) ELSE firstFailed
  /\ loop' = [loop EXCEPT ![l].pc = IF DeleteAfter(success) THEN "deleteLogs"
                                    ELSE "getUnsyncedCommits",
                          ![l].success = success]
  /\ UNCHANGED <<trackerVars, now, timers, dbVars, gitVars>>
  /\ UNCHANGED <<evtHist, ackedCommits, handed, dropped, gitHist, crashes, beforeCrash>>

\* (variant: the delete takes every row the tables hold when it runs)
BatchIdsOfTable(batch) == Ids(batch) \cup Ids(activityTbl) \cup Ids(commitTbl)

\* `const ids = logs.map((l) => l.id!)`: the ids of the batch that was submitted
BatchIds(batch) == Ids(batch)

\* (variant: a throw of deleteLogs ends the iteration before the setTimeout)
DeleteLogsEscapes(l, ok) ==
  /\ loop[l].pc = "deleteLogs"
  /\ IF ok
     THEN /\ activityTbl' = Without(activityTbl, BatchIds(loop[l].logs))
          /\ loop' = [loop EXCEPT ![l].pc = "getUnsyncedCommits"]
     ELSE /\ loop' = [loop EXCEPT ![l] = IdleLoop]
          /\ UNCHANGED activityTbl
  /\ UNCHANGED <<syncTimer, timers>>
  /\ UNCHANGED <<isTracking, disposable, queue, lastActivityTime, now>>
  /\ UNCHANGED <<commitTbl, nextLogId, nextCommitId, gitVars, histVars>>

\* `await this.db.deleteLogs(ids)`; a throw goes to the catch, skipping the commits.
DeleteLogs(l, ok) ==
  /\ loop[l].pc = "deleteLogs"
  /\ IF ok
     THEN /\ activityTbl' = Without(activityTbl, BatchIds(loop[l].logs))
          /\ loop' = [loop EXCEPT ![l].pc = "getUnsyncedCommits"]
          /\ UNCHANGED <<syncTimer, timers>>
     ELSE /\ Reschedule(l)
          /\ UNCHANGED activityTbl
  /\ UNCHANGED <<isTracking, disposable, queue, lastActivityTime, now>>
  /\ UNCHANGED <<commitTbl, nextLogId, nextCommitId, gitVars, histVars>>

\* `const commits = await this.db.getUnsyncedCommits(20)`
GetUnsyncedCommits(l, ok) ==
  /\ loop[l].pc = "getUnsyncedCommits"
  /\ LET commits == Take(commitTbl, CommitBatchLimit)
     IN IF ok /\ Len(commits) > 0
        THEN /\ loop' = [loop EXCEPT ![l].commits = commits, ![l].pc = "syncCommits"]
             /\ UNCHANGED <<syncTimer, timers>>
        ELSE Reschedule(l)
  /\ UNCHANGED <<isTracking, disposable, queue, lastActivityTime, now>>
  /\ UNCHANGED <<dbVars, gitVars, histVars>>

\* `const success = await this.apiClient.syncCommits(commits)`
SyncCommits(l, success) ==
  /\ loop[l].pc = "syncCommits"
  /\ ackedCommits' = IF success THEN ackedCommits \cup Ids(loop[l].commits)
                     ELSE ackedCommits
  /\ IF DeleteAfter(success)
     THEN /\ loop' = [loop EXCEPT ![l].pc = "deleteCommits", ![l].success = success]
          /\ UNCHANGED <<syncTimer, timers>>
     ELSE Reschedule(l)
  /\ UNCHANGED <<isTracking, disposable, queue, lastActivityTime, now>>
  /\ UNCHANGED <<dbVars, gitVars>>
  /\ UNCHANGED <<evtHist, ackedLogs, failedLogs, firstFailed, handed, dropped, gitHist,
               crashes, beforeCrash>>

\* `await this.db.deleteCommits(ids)`, then the reschedule
DeleteCommits(l, ok) ==
  /\ loop[l].pc = "deleteCommits"
  /\ commitTbl' = IF ok THEN Without(commitTbl, BatchIds(loop[l].commits)) ELSE commitTbl
  /\ Reschedule(l)
  /\ UNCHANGED <<isTracking, disposable, queue, lastActivityTime, now>>
  /\ UNCHANGED <<activityTbl, nextLogId, nextCommitId, gitVars, histVars>>

\* ------------------------------------------------------------------ GitTracker
GitSlots == 1..MaxGitTasks
IdleTask == [kind |-> "idle", projectPath |-> Undefined, pc |-> "idle",
             newCommit |-> Undefined, details |-> FALSE, clean |-> FALSE,
             start |-> Undefined]
Busy(p) == {s \in GitSlots : gitTask[s].pc # "idle" /\ gitTask[s].projectPath = p}
FreeSlot == CHOOSE s \in GitSlots : gitTask[s].pc = "idle" /\ \A k \in GitSlots : gitTask[k].pc = "idle" => s <= k

\* history: the calls of one project that ran alone, one after the other, with
\* HEAD unchanged; only the last two are kept
Outcome(task, hash, changed, inserted, after, raised) ==
  [kind |-> task.kind, start |-> task.start, hash |-> hash, changed |-> changed,
   details |-> task.details, inserted |-> inserted, after |-> after,
   raised |-> raised]
Push2(run, e) == IF Len(run) < 2 THEN Append(run, e) ELSE <<run[2], e>>

\* a call returns (or raises): its slot is free again
Finish(s, hash, changed, inserted, after, raised) ==
  LET task == gitTask[s]
      p == task.projectPath
  IN /\ gitTask' = [gitTask EXCEPT ![s] = IdleTask]
     /\ gitRun' = [gitRun EXCEPT ![p] =
                     IF task.clean
                     THEN Push2(@, Outcome(task, hash, changed, inserted, after, raised))
                     ELSE <<>>]

\* GitTracker.getActiveCommit
getActiveCommit(projectPath) == currentCommit[projectPath]

\* GitTracker.watchGitChanges: a watcher per workspace folder, and
\* initializeProject(folder) started for each without awaiting it
WatchGitChanges ==
  /\ ~watching
  /\ watching' = TRUE
  /\ gitTask' = [s \in GitSlots |->
                   IF s <= Len(workspaceFolders)
                   THEN [IdleTask EXCEPT !.kind = "init", !.pc = "getCurrentCommit",
                                         !.projectPath = workspaceFolders[s],
                                         !.clean = TRUE,
                                         !.start = currentCommit[workspaceFolders[s]]]
                   ELSE gitTask[s]]
  /\ gitRun' = [p \in Projects |-> <<>>]
  /\ UNCHANGED <<currentCommit, head, workspaceFolders>>
  /\ UNCHANGED <<trackerVars, hostVars, dbVars>>
  /\ UNCHANGED <<evtHist, syncHist, headChanges, gitCalls, crashes, beforeCrash>>

\* The watcher of folder p signals a change: trackCommitChange(p) is called and
\* suspends on `git rev-parse HEAD`.
TrackCommitChange(p) ==
  /\ watching
  /\ p \in Range(workspaceFolders)
  /\ \E s \in GitSlots : gitTask[s].pc = "idle"
  /\ gitCalls < MaxGitCalls
  /\ gitCalls' = gitCalls + 1
  /\ gitTask' = [s \in GitSlots |->
                   IF s = FreeSlot
                   THEN [IdleTask EXCEPT !.kind = "track", !.pc = "getCurrentCommit",
                                         !.projectPath = p, !.clean = (Busy(p) = {}),
                                         !.start = currentCommit[p]]
                   ELSE IF s \in Busy(p) THEN [gitTask[s] EXCEPT !.clean = FALSE]
                   ELSE gitTask[s]]
  /\ gitRun' = IF Busy(p) = {} THEN gitRun ELSE [gitRun EXCEPT ![p] = <<>>]
  /\ UNCHANGED <<currentCommit, head, workspaceFolders, watching>>
  /\ UNCHANGED <<trackerVars, hostVars, dbVars>>
  /\ UNCHANGED <<evtHist, syncHist, headChanges, crashes, beforeCrash>>

\* `if (oldCommit !== newCommit)` of trackCommitChange
CommitChanged(oldCommit, newCommit) == oldCommit # newCommit

\* (variant: the result of getCurrentCommit is used without the null test)
NoCommitNotTested(commit) == FALSE

\* `if (!newCommit) return;` of trackCommitChange, `if (commit)` of initializeProject
NoCommit(commit) == commit = Undefined

\* `await this.getCurrentCommit(projectPath)` returns: the HEAD hash, or null when
\* the git command failed (the error is caught in getCurrentCommit)
GetCurrentCommit(s, ok) ==
  /\ gitTask[s].pc = "getCurrentCommit"
  /\ LET task == gitTask[s]
         p == task.projectPath
         commit == IF ok THEN head[p] ELSE Undefined
     IN IF NoCommit(commit)
        THEN /\ Finish(s, commit, FALSE, FALSE, currentCommit[p], FALSE)
             /\ UNCHANGED currentCommit
        ELSE IF task.kind = "init"
        THEN /\ currentCommit' = [currentCommit EXCEPT ![p] = commit]
             /\ gitTask' = [gitTask EXCEPT ![s].pc = "getCommitDetails",
                                           ![s].newCommit = commit]
             /\ UNCHANGED gitRun
        ELSE IF CommitChanged(currentCommit[p], commit)
        THEN /\ gitTask' = [gitTask EXCEPT ![s].pc = "getCommitDetails",
                                           ![s].newCommit = commit]
             /\ UNCHANGED <<currentCommit, gitRun>>
        ELSE /\ Finish(s, commit, FALSE, FALSE, currentCommit[p], FALSE)
             /\ UNCHANGED currentCommit
  /\ UNCHANGED <<head, workspaceFolders, watching>>
  /\ UNCHANGED <<trackerVars, hostVars, dbVars>>
  /\ UNCHANGED <<evtHist, syncHist, headChanges, gitCalls, crashes, beforeCrash>>

\* getCommitDetails: the four `git log` queries of Promise.all and the `git show
\* --stat` after them; failed is the set of queries that fail, and one failing
\* query makes the whole result null
DetailsOf(failed) == failed = {}

\* `await this.getCommitDetails(projectPath, commit)` returns
GetCommitDetails(s, failed) ==
  /\ gitTask[s].pc = "getCommitDetails"
  /\ gitTask' = [gitTask EXCEPT ![s].pc = "getCurrentBranch",
                                ![s].details = DetailsOf(failed)]
  /\ UNCHANGED <<currentCommit, head, workspaceFolders, watching>>
  /\ UNCHANGED <<trackerVars, hostVars, dbVars, histVars>>

\* (variant: the new hash is not remembered)
SetCurrentNot(map, p, newCommit) == map

\* `this.currentCommit.set(projectPath, newCommit)` at the end of the changed
\* branch of trackCommitChange
SetCurrent(map, p, newCommit) == [map EXCEPT ![p] = newCommit]

\* `await this.getCurrentBranch(projectPath)` returns; without details nothing is
\* inserted and the call is over
GetCurrentBranch(s) ==
  /\ gitTask[s].pc = "getCurrentBranch"
  /\ LET task == gitTask[s]
         p == task.projectPath
     IN IF task.details
        THEN /\ gitTask' = [gitTask EXCEPT ![s].pc = "insertCommit"]
             /\ UNCHANGED <<currentCommit, gitRun>>
        ELSE IF task.kind = "track"
        THEN /\ currentCommit' = SetCurrent(currentCommit, p, task.newCommit)
             /\ Finish(s, task.newCommit, TRUE, FALSE, currentCommit'[p], FALSE)
        ELSE /\ UNCHANGED currentCommit
             /\ Finish(s, task.newCommit, TRUE, FALSE, currentCommit[p], FALSE)
  /\ UNCHANGED <<head, workspaceFolders, watching>>
  /\ UNCHANGED <<trackerVars, hostVars, dbVars>>
  /\ UNCHANGED <<evtHist, syncHist, headChanges, gitCalls, crashes, beforeCrash>>

\* (variant: the row carries the hash that was current before the call)
CommitRowOfCurrent(projectPath, newCommit) ==
  [projectPath |-> projectPath, commitHash |-> currentCommit[projectPath]]

\* the GitCommit row built by trackCommitChange / initializeProject
CommitRow(projectPath, newCommit) == [projectPath |-> projectPath, commitHash |-> newCommit]

\* `await this.database.insertCommit(commit)` returns or throws; a throw leaves
\* the call by a rejected promise, before currentCommit is set
InsertCommit(s, ok) ==
  /\ gitTask[s].pc = "insertCommit"
  /\ LET task == gitTask[s]
         p == task.projectPath
         row == CommitRow(p, task.newCommit)
     IN IF ok
        THEN /\ commitTbl' = Append(commitTbl,
                  [id |-> nextCommitId, projectPath |-> row.projectPath,
                   commitHash |-> row.commitHash])
             /\ nextCommitId' = nextCommitId + 1
             /\ currentCommit' = IF task.kind = "track"
                                 THEN SetCurrent(currentCommit, p, task.newCommit)
                                 ELSE currentCommit
             /\ Finish(s, task.newCommit, TRUE, TRUE, currentCommit'[p], FALSE)
        ELSE /\ Finish(s, task.newCommit, TRUE, FALSE, currentCommit[p], TRUE)
             /\ UNCHANGED <<commitTbl, nextCommitId, currentCommit>>
  /\ UNCHANGED <<head, workspaceFolders, watching>>
  /\ UNCHANGED <<trackerVars, hostVars, activityTbl, nextLogId>>
  /\ UNCHANGED <<evtHist, syncHist, headChanges, gitCalls, crashes, beforeCrash>>

\* the repository of project p moves to another commit (commit, checkout, pull)
HeadChange(p, h) ==
  /\ p \in Range(workspaceFolders)
  /\ head[p] # h
  /\ headChanges < MaxHeadChanges
  /\ headChanges' = headChanges + 1
  /\ head' = [head EXCEPT ![p] = h]
  /\ gitTask' = [s \in GitSlots |->
                   IF s \in Busy(p) THEN [gitTask[s] EXCEPT !.clean = FALSE]
                   ELSE gitTask[s]]
  /\ gitRun' = [gitRun EXCEPT ![p] = <<>>]
  /\ UNCHANGED <<currentCommit, workspaceFolders, watching>>
  /\ UNCHANGED <<trackerVars, hostVars, dbVars>>
  /\ UNCHANGED <<evtHist, syncHist, gitCalls, crashes, beforeCrash>>

\* ------------------------------------------------------------------- the host
\* The extension host dies: every object in memory is gone (the Tracker, the
\* GitTracker, timers, suspended calls); the database file stays as it is.
Crash ==
  /\ crashes < MaxCrashes
  /\ crashes' = crashes + 1
  /\ beforeCrash' = [logs |-> (1..(nextLogId - 1)) \ ackedLogs,
                     commits |-> (1..(nextCommitId - 1)) \ ackedCommits]
  /\ isTracking' = FALSE
  /\ disposable' = Undefined
  /\ queue' = <<>>
  /\ syncTimer' = NoTimer
  /\ lastActivityTime' = 0
  /\ timers' = {}
  /\ loop' = [l \in Loops |-> IdleLoop]
  /\ currentCommit' = [p \in Projects |-> Undefined]
  /\ watching' = FALSE
  /\ gitTask' = [s \in GitSlots |-> IdleTask]
  /\ gitRun' = [p \in Projects |-> <<>>]
  /\ sinceStart' = 0
  /\ UNCHANGED <<now, dbVars, head, workspaceFolders>>
  /\ UNCHANGED <<calls, emitted, heldAtStop, ackedLogs, failedLogs, firstFailed, ackedCommits, handed,
               dropped, headChanges,
                 gitCalls>>

\* ------------------------------------------------------------- specifications
InitWith(folders, rows) ==
  /\ isTracking = FALSE
  /\ disposable = Undefined
  /\ queue = <<>>
  /\ syncTimer = NoTimer
  /\ lastActivityTime = 0
  /\ now = 0
  /\ timers = {}
  /\ loop = [l \in Loops |-> IdleLoop]
  /\ activityTbl = <<>>
  /\ commitTbl = rows
  /\ nextLogId = 1
  /\ nextCommitId = Len(rows) + 1
  /\ currentCommit = [p \in Projects |-> Undefined]
  /\ head = [p \in Projects |-> "a1"]
  /\ workspaceFolders = folders
  /\ watching = FALSE
  /\ gitTask = [s \in GitSlots |-> IdleTask]
  /\ calls = <<>>
  /\ emitted = <<>>
  /\ sinceStart = 0
  /\ heldAtStop = {}
  /\ ackedLogs = {}
  /\ failedLogs = {}
  /\ firstFailed = {}
  /\ handed = {}
  /\ dropped = {}
  /\ ackedCommits = {}
  /\ headChanges = 0
  /\ gitRun = [p \in Projects |-> <<>>]
  /\ gitCalls = 0
  /\ crashes = 0
  /\ beforeCrash = [logs |-> {}, commits |-> {}]

\* the steps of the sync iterations in flight and of the timers
SyncStep ==
  \/ \E t \in Loops : TimerFire(t)
  \/ \E l \in Loops, ok \in BOOLEAN : InsertActivity(l, ok)
  \/ \E l \in Loops, ok \in BOOLEAN : GetUnsyncedLogs(l, ok)
  \/ \E l \in Loops, success \in BOOLEAN : SyncActivities(l, success)
  \/ \E l \in Loops, ok \in BOOLEAN : DeleteLogs(l, ok)
  \/ \E l \in Loops, ok \in BOOLEAN : GetUnsyncedCommits(l, ok)
  \/ \E l \in Loops, success \in BOOLEAN : SyncCommits(l, success)
  \/ \E l \in Loops, ok \in BOOLEAN : DeleteCommits(l, ok)

\* the calls of GitTracker and the repositories
GitStep ==
  \/ WatchGitChanges
  \/ \E p \in Projects : TrackCommitChange(p)
  \/ \E s \in GitSlots, ok \in BOOLEAN : GetCurrentCommit(s, ok)
  \/ \E s \in GitSlots, failed \in DetailFailures : GetCommitDetails(s, failed)
  \/ \E s \in GitSlots : GetCurrentBranch(s)
  \/ \E s \in GitSlots, ok \in BOOLEAN : InsertCommit(s, ok)
  \/ \E p \in Projects, h \in Hashes : HeadChange(p, h)

\* The sync engine: one workspace folder, a commit row left unsynced by an
\* earlier run, events 2.5 s apart with an editor open.
Init == InitWith(<<"/p">>, <<[id |-> 1, projectPath |-> "/p", commitHash |-> "a1"]>>)
SyncActivity ==
  /\ Len(emitted) < MaxRecords
  /\ \E gap \in SyncGaps : HandleActivity(gap, TRUE)

\* The user starts and stops tracking at will.
Next ==
  \/ StartTracking
  \/ StartTrackingAgain
  \/ StopTracking
  \/ StopTrackingAgain
  \/ SyncActivity
  \/ SyncStep
Spec == Init /\ [][Next]_vars

\* Tracking stays on: database calls may throw and the host may crash and be
\* started again.
NextRun ==
  \/ StartTracking
  \/ \E gap \in SyncGaps : HandleActivity(gap, TRUE)
  \/ SyncStep
  \/ Crash
SpecRun == Init /\ [][NextRun]_vars

\* Tracking stays on and the host keeps running: a pending timer fires and an
\* awaited call settles (weak fairness of the steps); the remote and the database
\* may fail, but none of their calls fails every time from some point on
\* (strong fairness of each call's success).
NextLive ==
  \/ StartTracking
  \/ \E gap \in SyncGaps : HandleActivity(gap, TRUE)
  \/ SyncStep
FairLive ==
  /\ WF_vars(SyncStep)
  /\ SF_vars(\E l \in Loops : GetUnsyncedLogs(l, TRUE))
  /\ SF_vars(\E l \in Loops : SyncActivities(l, TRUE))
  /\ SF_vars(\E l \in Loops : DeleteLogs(l, TRUE))
  /\ SF_vars(\E l \in Loops : GetUnsyncedCommits(l, TRUE))
  /\ SF_vars(\E l \in Loops : SyncCommits(l, TRUE))
  /\ SF_vars(\E l \in Loops : DeleteCommits(l, TRUE))
SpecLive == Init /\ [][NextLive]_vars /\ FairLive

\* The debounce engine: raw events at every spacing, with and without an editor;
\* the database and the remote never answer, so no sync iteration gets past its
\* first await.
NextDebounce ==
  \/ StartTracking
  \/ StartTrackingAgain
  \/ StopTracking
  \/ StopTrackingAgain
  \/ \E gap \in Gaps, editor \in BOOLEAN : HandleActivity(gap, editor)
SpecDebounce == InitWith(<<"/p">>, <<>>) /\ [][NextDebounce]_vars

\* The revision correlator at activation: two workspace folders whose HEAD stays
\* where it is, initializeProject for both, watcher signals for either.
InitGitAll == InitWith(<<"/p", "/q">>, <<>>)
NextGitAll ==
  \/ WatchGitChanges
  \/ \E p \in Projects : TrackCommitChange(p)
  \/ \E s \in GitSlots, ok \in BOOLEAN : GetCurrentCommit(s, ok)
  \/ \E s \in GitSlots, failed \in DetailFailures : GetCommitDetails(s, failed)
  \/ \E s \in GitSlots : GetCurrentBranch(s)
  \/ \E s \in GitSlots, ok \in BOOLEAN : InsertCommit(s, ok)
SpecGitAll == InitGitAll /\ [][NextGitAll]_vars

\* The revision correlator: one workspace folder, no tracking.
InitGit == InitWith(<<"/p">>, <<>>)
NextGit == GitStep
SpecGit == InitGit /\ [][NextGit]_vars

\* ------------------------------------------------------------------ properties
InsertedLogs == 1..(nextLogId - 1)
InsertedCommits == 1..(nextCommitId - 1)
IterationOver == (\A l \in Loops : loop[l].pc = "idle") /\ timers # {}

\* C1: a row is gone from the database only if a submit whose batch held it was
\* acknowledged; the rows of a batch whose submit returned false are all still
\* stored (unless a later submit acknowledged them).
C1_DeletedOnlyAfterAck ==
  /\ \A id \in InsertedLogs : id \notin Ids(activityTbl) => id \in ackedLogs
  /\ \A id \in InsertedCommits : id \notin Ids(commitTbl) => id \in ackedCommits
  /\ \A id \in failedLogs \ ackedLogs : id \in Ids(activityTbl)

\* C1 witness: an iteration read 3 unsynced activities, its submit returned false,
\* and at the end of the iteration all 3 are in the database.
C1_ThreeKeptAfterFailure ==
  /\ IterationOver
  /\ Cardinality(failedLogs) = 3
  /\ ackedLogs = {}
  /\ failedLogs \subseteq Ids(activityTbl)

\* C2: the delete that follows an acknowledged submit removes the rows of the
\* submitted batch and no other row: when deleteLogs returns, the ids stored are
\* the ids stored before without the ids of the batch, when it throws nothing is
\* removed; rows leave a table by no other step; the same for the commits.
C2_DeletesExactlyTheBatch ==
  [][/\ \A l \in Loops :
          /\ (loop[l].pc = "deleteLogs" /\ loop'[l].pc = "getUnsyncedCommits")
                => Ids(activityTbl') = Ids(activityTbl) \ Ids(loop[l].logs)
          /\ (loop[l].pc = "deleteLogs" /\ loop'[l].pc = "idle")
                => activityTbl' = activityTbl
          /\ (loop[l].pc = "deleteCommits" /\ loop'[l].pc = "idle")
                => \/ commitTbl' = commitTbl
                   \/ Ids(commitTbl') = Ids(commitTbl) \ Ids(loop[l].commits)
     /\ Ids(activityTbl) \ Ids(activityTbl') # {}
          => \E l \in Loops : /\ loop[l].pc = "deleteLogs"
                              /\ loop[l].success
                              /\ loop'[l].pc = "getUnsyncedCommits"
     /\ Ids(commitTbl) \ Ids(commitTbl') # {}
          => \E l \in Loops : loop[l].pc = "deleteCommits" /\ loop[l].success
    ]_vars

\* C2 witness: deleteLogs has returned for an acknowledged batch, none of its rows
\* is stored any more, and a row that was inserted while the submit was
\* suspended is still stored.
C2_OtherRowSurvives ==
  \E l \in Loops :
    /\ loop[l].pc = "getUnsyncedCommits"
    /\ loop[l].success
    /\ loop[l].logs # <<>>
    /\ Ids(loop[l].logs) \cap Ids(activityTbl) = {}
    /\ Ids(activityTbl) \ Ids(loop[l].logs) # {}

\* C3 as stated: when a submit is acknowledged after one or more submits in a
\* row returned false, its batch is exactly the batch of the first of those
\* failed submits (the rows that were stored before the first attempt).
C3_AckedBatchIsFirstBatch ==
  [][\A l \in Loops :
       (loop[l].pc = "syncActivities" /\ loop'[l].pc = "deleteLogs" /\ firstFailed # {})
         => Ids(loop[l].logs) = firstFailed
    ]_vars

\* C3 amended: a batch that was read with fewer than 50 rows holds every row of
\* the batches that failed before it was read and were not acknowledged by then
\* (it may hold rows stored since as well), no row twice; and no row of a failed
\* batch is lost: it is stored until a submit acknowledges it.
C3_AckedBatchCoversFailed ==
  /\ \A l \in Loops :
       loop[l].pc \in {"syncActivities", "deleteLogs"}
         => /\ Len(loop[l].logs) <= LogBatchLimit
            /\ Cardinality(Ids(loop[l].logs)) = Len(loop[l].logs)
            /\ Len(loop[l].logs) < LogBatchLimit => loop[l].owed \subseteq Ids(loop[l].logs)
  /\ \A id \in failedLogs : id \in ackedLogs \/ id \in Ids(activityTbl)

\* C3 witness: a push was acknowledged after a failed one, and its batch holds the
\* rows of the failed batch and a row stored after the failure.
C3_AckAfterFailure ==
  \E l \in Loops :
    /\ loop[l].pc = "deleteLogs"
    /\ loop[l].success
    /\ loop[l].owed # {}
    /\ loop[l].owed \subseteq Ids(loop[l].logs)
    /\ Ids(loop[l].logs) \ loop[l].owed # {}

\* C4: a row that was inserted and not acknowledged when the host crashed is
\* still stored after the crash until a submit acknowledges it, and a batch
\* submitted by an iteration of the next run (read with fewer than 50 rows) holds it.
C4_CrashKeepsUnacked ==
  /\ \A id \in beforeCrash.logs : id \in ackedLogs \/ id \in Ids(activityTbl)
  /\ \A id \in beforeCrash.commits : id \in ackedCommits \/ id \in Ids(commitTbl)
  /\ \A l \in Loops :
       /\ (loop[l].pc = "syncActivities" /\ Len(loop[l].logs) < LogBatchLimit)
            => (beforeCrash.logs \ ackedLogs) \subseteq Ids(loop[l].logs)
       /\ (loop[l].pc = "syncCommits" /\ Len(loop[l].commits) < CommitBatchLimit)
            => (beforeCrash.commits \ ackedCommits) \subseteq Ids(loop[l].commits)

\* C4 witness: after a crash an iteration of the new run is submitting a batch
\* that holds a row whose submit had failed before the crash.
C4_ResentAfterCrash ==
  /\ crashes > 0
  /\ \E l \in Loops :
       /\ loop[l].pc = "syncActivities"
       /\ beforeCrash.logs \cap failedLogs \cap Ids(loop[l].logs) # {}

\* C5: any two records appended to the queue have timestamps at least
\* debounceInterval apart, whatever raw events arrived.
C5_RecordsDebounced ==
  \A i, j \in 1..Len(emitted) :
    i < j => emitted[j].timestamp - emitted[i].timestamp >= debounceInterval

\* C5 witness: two records exactly debounceInterval apart, with an event between
\* them (an editor was active) that produced no record.
C5_DiscardedBetween ==
  \E i \in 1..Len(emitted) : \E c \in 1..Len(calls) :
    /\ i < Len(emitted)
    /\ emitted[i + 1].timestamp - emitted[i].timestamp = debounceInterval
    /\ calls[c].editor
    /\ emitted[i].timestamp < calls[c].t
    /\ calls[c].t < emitted[i + 1].timestamp

\* C6 as stated: the first record emitted after a startTracking has duration 0.
C6_FirstAfterStartIsZero ==
  \A i \in 1..Len(emitted) : emitted[i].sinceStart = 0 => emitted[i].duration = 0

\* C7: for every record but the first, with gap the record's timestamp minus
\* lastActivityTime as it was before the event: the duration is 0 when
\* gap >= maxIdleTime, it is the gap when debounceInterval < gap < maxIdleTime,
\* and it is never negative.
C7_DurationFromGap ==
  \A i \in 1..Len(emitted) :
    LET gap == emitted[i].timestamp - emitted[i].last IN
      /\ emitted[i].duration >= 0
      /\ i > 1 => /\ gap >= maxIdleTime => emitted[i].duration = 0
                  /\ (debounceInterval < gap /\ gap < maxIdleTime)
                       => emitted[i].duration = gap

\* C7 witness: three records, the second after an idle gap (duration 0), the third
\* after a gap between the two thresholds (duration = gap).
C7_BothGaps ==
  /\ Len(emitted) = 3
  /\ emitted[2].timestamp - emitted[2].last >= maxIdleTime
  /\ emitted[2].duration = 0
  /\ emitted[3].timestamp - emitted[3].last > debounceInterval
  /\ emitted[3].timestamp - emitted[3].last < maxIdleTime
  /\ emitted[3].duration = emitted[3].timestamp - emitted[3].last

\* C8 as stated: from the initial state, events at 0, 1000 and 2500 with an active
\* editor give exactly the records {0, duration 0} and {2500, duration 2500}.
C8_ScenarioTwoRecords ==
  calls = << [t |-> 0, editor |-> TRUE], [t |-> 1000, editor |-> TRUE],
             [t |-> 2500, editor |-> TRUE] >>
    => /\ Len(emitted) = 2
       /\ emitted[1].timestamp = 0 /\ emitted[1].duration = 0
       /\ emitted[2].timestamp = 2500 /\ emitted[2].duration = 2500

RowsOf(projectPath, hash) ==
  {i \in 1..Len(commitTbl) :
     commitTbl[i].projectPath = projectPath /\ commitTbl[i].commitHash = hash}
\* two trackCommitChange(p) calls, the second started after the first was over,
\* HEAD the same throughout and reported to both
TwoCallsInSuccession(p) ==
  /\ Len(gitRun[p]) = 2
  /\ \A k \in 1..2 : gitRun[p][k].kind = "track" /\ gitRun[p][k].hash = head[p]

\* C9 as stated: after two such calls that both returned, the database holds
\* exactly one commit row of that project with the HEAD hash.
C9_ExactlyOneRow ==
  \A p \in Projects :
    (TwoCallsInSuccession(p) /\ ~gitRun[p][1].raised /\ ~gitRun[p][2].raised)
      => Cardinality(RowsOf(p, head[p])) = 1

\* C9 amended: of two such calls at most one stores a row; the second stores one
\* only when the insert of the first threw; after a first call that returned,
\* the second finds no change and stores nothing; a first call that found a
\* change, got the details and did not throw has stored the row (exactly one by
\* the two calls); a first call whose detail fetch failed has stored none and
\* neither has the second.
C9_SecondCallStoresNothing ==
  \A p \in Projects :
    TwoCallsInSuccession(p) =>
      LET e1 == gitRun[p][1]
          e2 == gitRun[p][2]
      IN /\ ~(e1.inserted /\ e2.inserted)
         /\ e2.inserted => e1.raised
         /\ ~e1.raised => (~e2.changed /\ ~e2.inserted)
         /\ e1.inserted <=> (e1.changed /\ e1.details /\ ~e1.raised)
         /\ (e1.inserted \/ e2.inserted) => RowsOf(p, head[p]) # {}
         /\ (e1.changed /\ ~e1.details) => (~e1.inserted /\ ~e2.inserted)

\* C9 witness: the first of the two calls found HEAD changed and stored its row,
\* the second found nothing to do, and the database holds that one row.
C9_StoredOnceThenNoop ==
  \E p \in Projects :
    /\ TwoCallsInSuccession(p)
    /\ gitRun[p][1].inserted
    /\ ~gitRun[p][2].changed
    /\ ~gitRun[p][2].raised
    /\ Cardinality(RowsOf(p, head[p])) = 1

\* the last trackCommitChange("/p") that ran alone started with currentCommit
\* "a1" and was told that HEAD is "b2"
LastCall == gitRun["/p"][Len(gitRun["/p"])]
DetectedA1ToB2 ==
  /\ gitRun["/p"] # <<>>
  /\ LastCall.kind = "track"
  /\ LastCall.start = "a1"
  /\ LastCall.hash = "b2"

\* C10 as stated: such a call, once it has returned, has inserted a row
\* ("/p", "b2") and left getActiveCommit("/p") = "b2".
C10_RowAndCurrentB2 ==
  (DetectedA1ToB2 /\ ~LastCall.raised) =>
    /\ LastCall.inserted
    /\ RowsOf("/p", "b2") # {}
    /\ LastCall.after = "b2"

\* C10 amended: such a call that returned leaves getActiveCommit("/p") = "b2",
\* and it has inserted the row ("/p", "b2") exactly when its detail fetch
\* succeeded; a call whose insert threw has stored nothing and left "a1" current.
C10_CurrentB2RowIfDetails ==
  DetectedA1ToB2 =>
    /\ LastCall.inserted <=> (LastCall.details /\ ~LastCall.raised)
    /\ LastCall.inserted => RowsOf("/p", "b2") # {}
    /\ LastCall.after = IF LastCall.raised THEN "a1" ELSE "b2"

\* C10 witness: the call fetched the details, inserted ("/p", "b2") and "b2" is
\* current.
C10_B2Stored ==
  /\ DetectedA1ToB2
  /\ LastCall.inserted
  /\ RowsOf("/p", "b2") # {}
  /\ getActiveCommit("/p") = "b2"

\* C11 as stated: startTracking while stopped turns tracking on, subscribes to
\* the events and starts one sync iteration; stopTracking while tracking turns it
\* off, releases the subscriptions and leaves no sync timer pending; (a call in
\* the state it asks for returns at its first line: StartTrackingAgain and
\* StopTrackingAgain leave every variable as it is).
C11_StartStopEffects ==
  [][/\ (~isTracking /\ isTracking')
          => /\ disposable' = "live"
             /\ timers' = timers
             /\ \E l \in Loops :
                  /\ loop[l].pc = "idle"
                  /\ loop'[l].pc # "idle"
                  /\ \A k \in Loops \ {l} : loop'[k] = loop[k]
     /\ (isTracking /\ ~isTracking')
          => /\ disposable' = "disposed"
             /\ loop' = loop
             /\ timers' = {}
    ]_vars

InFlight == {l \in Loops : loop[l].pc # "idle"}

\* C12 as stated: an iteration that finishes while tracking is off sets no timer,
\* so once tracking is off and no iteration is in flight no timer is pending;
\* and while tracking stays off no iteration begins.
C12_NoTimerAfterStop ==
  [][/\ \A l \in Loops :
          (~isTracking /\ loop[l].pc # "idle" /\ loop'[l].pc = "idle")
            => timers' \subseteq timers
     /\ (~isTracking' /\ InFlight' = {}) => timers' = {}
     /\ (~isTracking /\ ~isTracking') => InFlight' \subseteq InFlight
    ]_vars

\* C13: while tracking stays on, every row that is in the database is eventually
\* in an acknowledged batch and deleted, however often the submit failed before.
C13_EventuallyAckedAndDeleted ==
  /\ \A id \in 1..MaxCalls :
       (id \in Ids(activityTbl)) ~> (id \in ackedLogs /\ id \notin Ids(activityTbl))
  /\ \A id \in 1..1 :
       (isTracking /\ id \in Ids(commitTbl))
          ~> (id \in ackedCommits /\ id \notin Ids(commitTbl))

\* C13 witness: a row whose submit had failed was submitted again by a later
\* iteration, acknowledged and deleted.
C13_RetriedThenDeleted ==
  \E id \in failedLogs : id \in ackedLogs /\ id \notin Ids(activityTbl)

Stamps(s) == {s[i].timestamp : i \in 1..Len(s)}
ToSave(l) == Stamps(loop[l].logsToSave)

\* C14: every record appended to the queue is in exactly one place: still in the
\* queue, in the logsToSave of one iteration waiting for its insertActivity, or
\* already handed to insertActivity; so none is lost at the flush and none is
\* handed to insertActivity twice.
C14_EachRecordHandedOnce ==
  /\ Stamps(emitted) = handed \cup Stamps(queue) \cup UNION {ToSave(l) : l \in Loops}
  /\ handed \cap Stamps(queue) = {}
  /\ Cardinality(Stamps(queue)) = Len(queue)
  /\ \A l \in Loops :
       /\ ToSave(l) \cap (handed \cup Stamps(queue)) = {}
       /\ Cardinality(ToSave(l)) = Len(loop[l].logsToSave)
       /\ \A k \in Loops \ {l} : ToSave(l) \cap ToSave(k) = {}

\* C14 witness: a flush is suspended on insertActivity and a record appended
\* since is waiting in the queue.
C14_AppendedDuringFlush ==
  \E l \in Loops :
    /\ loop[l].pc = "insertActivity"
    /\ loop[l].logsToSave # <<>>
    /\ queue # <<>>

\* C15: a record whose insertActivity threw is dropped: it is not in the queue,
\* not in the logsToSave of any iteration and not in the table, and it is not
\* handed to insertActivity again; the flush goes on with the rest of its
\* logsToSave (each is handed to insertActivity in turn) and then with the push
\* steps of the same iteration.
C15_FailedInsertDropped ==
  [][/\ dropped' \subseteq handed'
     /\ dropped' \cap Stamps(queue') = {}
     /\ dropped' \cap Stamps(activityTbl') = {}
     /\ \A l \in Loops :
          /\ dropped' \cap Stamps(loop'[l].logsToSave) = {}
          /\ (loop[l].pc = "insertActivity" /\ loop'[l] # loop[l])
               => /\ Head(loop[l].logsToSave).timestamp \notin dropped
                  /\ loop'[l].logsToSave = Tail(loop[l].logsToSave)
                  /\ loop'[l].pc = IF loop'[l].logsToSave # <<>> THEN "insertActivity"
                                   ELSE "getUnsyncedLogs"
    ]_vars

\* C15 witness: an iteration whose flush lost a record to a throwing insert has
\* stored a later record of the same logsToSave and has come to its push steps.
C15_RestPersisted ==
  \E l \in Loops :
    /\ loop[l].pc = "getUnsyncedLogs"
    /\ \E a \in loop[l].lost, b \in loop[l].saved :
         /\ a < b
         /\ a \in dropped
         /\ b \in Stamps(activityTbl)
         /\ a \notin Stamps(activityTbl)

PushSteps == {"getUnsyncedLogs", "syncActivities", "deleteLogs",
              "getUnsyncedCommits", "syncCommits", "deleteCommits"}

\* C16: an iteration that is in its push steps ends only by setting a new timer,
\* whether its database call returned or threw: while tracking is on, a step that
\* ends the iteration leaves the timer it has just set pending in syncTimer, and
\* a step that does not end it leaves it in the push steps.
C16_ThrowStillReschedules ==
  [][\A l \in Loops :
       (isTracking /\ loop[l].pc \in PushSteps /\ loop'[l] # loop[l])
         => IF loop'[l].pc = "idle"
            THEN /\ syncTimer' \notin timers
                 /\ timers' = timers \cup {syncTimer'}
                 /\ isTracking'
            ELSE loop'[l].pc \in PushSteps /\ timers' = timers
    ]_vars

\* C16 witness: deleteLogs threw (rows of an acknowledged batch are still stored
\* when the iteration is over) and the next iteration is scheduled.
C16_ScheduledAfterThrow ==
  /\ isTracking
  /\ IterationOver
  /\ syncTimer \in timers
  /\ ackedLogs \cap Ids(activityTbl) # {}

\* C17: a trackCommitChange or initializeProject call whose HEAD query failed
\* returns without raising, has stored nothing and has left currentCommit of its
\* project as it was; the step that ends it touches no row, no currentCommit
\* entry and no other call in flight, so the initializeProject of the other
\* folder goes on.
C17_HeadFailureChangesNothing ==
  [][/\ \A p \in Projects : \A i \in 1..Len(gitRun'[p]) :
          gitRun'[p][i].hash = Undefined
            => /\ ~gitRun'[p][i].raised
               /\ ~gitRun'[p][i].inserted
               /\ ~gitRun'[p][i].changed
               /\ gitRun'[p][i].after = gitRun'[p][i].start
     /\ \A s \in GitSlots :
          (gitTask[s].pc = "getCurrentCommit" /\ gitTask'[s].pc = "idle")
            => /\ commitTbl' = commitTbl
               /\ currentCommit' = currentCommit
               /\ \A k \in GitSlots \ {s} : gitTask'[k] = gitTask[k]
    ]_vars

\* C17 witness: the HEAD query of initializeProject("/p") failed, currentCommit of
\* "/p" is still absent and nothing is stored for it, and initializeProject("/q")
\* has run to its end and stored its row.
C17_OtherProjectInitialised ==
  /\ Len(gitRun["/p"]) = 1
  /\ gitRun["/p"][1].kind = "init"
  /\ gitRun["/p"][1].hash = Undefined
  /\ getActiveCommit("/p") = Undefined
  /\ \A h \in Hashes : RowsOf("/p", h) = {}
  /\ Len(gitRun["/q"]) = 1
  /\ gitRun["/q"][1].kind = "init"
  /\ gitRun["/q"][1].inserted
  /\ getActiveCommit("/q") = head["/q"]
  /\ RowsOf("/q", head["/q"]) # {}

\* C18: a call that found a new revision and whose detail fetch failed has
\* stored no row; a trackCommitChange that follows it with HEAD unchanged finds
\* no change and stores no row either.
C18_NoRetryAfterDetailFailure ==
  \A p \in Projects : \A i \in 1..Len(gitRun[p]) :
    LET e == gitRun[p][i] IN
      (e.changed /\ ~e.details)
        => /\ ~e.inserted
           /\ ~e.raised
           /\ (i < Len(gitRun[p]) /\ gitRun[p][i + 1].kind = "track")
                => (~gitRun[p][i + 1].changed /\ ~gitRun[p][i + 1].inserted)

\* C18 witness: trackCommitChange found a new HEAD, a detail query failed, the
\* next trackCommitChange got the same HEAD and did nothing, and the table has
\* no row of that revision.
C18_RevisionNeverStored ==
  \E p \in Projects :
    /\ TwoCallsInSuccession(p)
    /\ gitRun[p][1].changed
    /\ ~gitRun[p][1].details
    /\ ~gitRun[p][2].changed
    /\ RowsOf(p, head[p]) = {}

\* C19 as stated: with HEAD constant, however initializeProject and
\* trackCommitChange calls of one project overlap, the table holds at most one
\* row per (projectPath, commitHash).
C19_AtMostOneRowPerRevision ==
  \A p \in Projects : \A h \in Hashes : Cardinality(RowsOf(p, h)) <= 1

\* C20 as stated: at most one sync iteration is in flight and at most one sync
\* timer is pending at any time, and no row is in the batches of two iterations
\* at once.
C20_OneIterationOneTimer ==
  /\ Cardinality(InFlight) <= 1
  /\ Cardinality(timers) <= 1
  /\ \A l, k \in Loops :
       (l # k /\ loop[l].pc \in {"syncActivities", "deleteLogs"}
              /\ loop[k].pc \in {"syncActivities", "deleteLogs"})
         => Ids(loop[l].logs) \cap Ids(loop[k].logs) = {}

\* C21: an event that passes the debounce test with no active editor appends no
\* record but sets lastActivityTime to its time; the record of a later event
\* takes its duration from lastActivityTime as that event left it.
C21_NoEditorMovesLastActivity ==
  [][Len(calls') = Len(calls) + 1 =>
       LET c == calls'[Len(calls')]
           gap == c.t - lastActivityTime
       IN /\ (gap >= debounceInterval /\ ~c.editor)
               => /\ queue' = queue
                  /\ emitted' = emitted
                  /\ lastActivityTime' = c.t
          /\ Len(emitted') = Len(emitted) + 1
               => LET e == emitted'[Len(emitted')]
                  IN /\ e.timestamp = c.t
                     /\ e.last = lastActivityTime
                     /\ e.duration = IF lastActivityTime # 0 /\ gap < maxIdleTime
                                     THEN gap ELSE 0
                     /\ queue' = Append(queue, [timestamp |-> c.t, duration |-> e.duration])
    ]_vars

\* C21 witness: between two records an event without editor passed the debounce
\* test; the second record's duration is the time since that event, not since
\* the first record.
C21_MeasuredFromUnrecorded ==
  \E i \in 1..Len(emitted) : \E c \in 1..Len(calls) :
    /\ i > 1
    /\ ~calls[c].editor
    /\ emitted[i - 1].timestamp < calls[c].t
    /\ emitted[i].last = calls[c].t
    /\ emitted[i].duration = emitted[i].timestamp - calls[c].t
    /\ emitted[i].duration > 0
    /\ emitted[i].duration < emitted[i].timestamp - emitted[i - 1].timestamp

\* the steps of the queue around stopTracking and startTracking: stopTracking
\* leaves the queue and the store alone; while tracking is off the queue does
\* not change and none of its records is handed to the store; startTracking
\* moves the whole queue into the iteration it begins; a record leaves the
\* logsToSave of an iteration only by being handed to insertActivity.
QueueWaits ==
  /\ (isTracking /\ ~isTracking')
       => /\ queue' = queue
          /\ activityTbl' = activityTbl
          /\ handed' = handed
          /\ loop' = loop
  /\ (~isTracking /\ ~isTracking')
       => /\ queue' = queue
          /\ (handed' \ handed) \cap Stamps(queue) = {}
  /\ (~isTracking /\ isTracking')
       => /\ queue' = <<>>
          /\ \E l \in Loops : /\ loop[l].pc = "idle"
                              /\ loop'[l].logsToSave = queue
                              /\ queue # <<>> => loop'[l].pc = "insertActivity"
  /\ \A l \in Loops :
       (loop[l].logsToSave # <<>> /\ loop'[l].logsToSave # loop[l].logsToSave)
         => LET log == Head(loop[l].logsToSave)
            IN /\ loop'[l].logsToSave = Tail(loop[l].logsToSave)
               /\ log.timestamp \in handed'
               /\ \/ log.timestamp \in dropped'
                  \/ /\ Len(activityTbl') = Len(activityTbl) + 1
                     /\ activityTbl'[Len(activityTbl')].timestamp = log.timestamp

\* C22 (as amended): stopTracking neither discards nor flushes the queue; the
\* records in it stay there unchanged, and are not persisted, until the next
\* startTracking, whose first iteration takes them all and hands each to
\* insertActivity, also when tracking has been stopped again in the meantime.
C22_QueueWaitsForStart == [][QueueWaits]_vars

\* C22 (as stated): the same, and a record that was in the queue at a
\* stopTracking is never handed to the store while tracking is off.
C22_NeverPersistedWhileStopped ==
  [][/\ QueueWaits
     /\ ~isTracking => (handed' \ handed) \cap heldAtStop = {}
    ]_vars

\* C22 witness: tracking is on again and the iteration it began is persisting
\* the batch that waited in the queue: its first record is in the store, the
\* next one, in the queue at the stopTracking, is about to be inserted.
C22_PersistedAfterRestart ==
  /\ isTracking
  /\ queue = <<>>
  /\ \E l \in Loops :
       /\ loop[l].pc = "insertActivity"
       /\ Head(loop[l].logsToSave).timestamp \in heldAtStop
       /\ loop[l].saved # {}
       /\ loop[l].saved \subseteq Stamps(activityTbl)

\* the steps of the activity push of an iteration
ActivitySteps == {"getUnsyncedLogs", "syncActivities", "deleteLogs"}

\* an iteration is at the first statement of the revision push
AtRevisionPush == \E l \in Loops : loop[l].pc = "getUnsyncedCommits"

\* C23: a step of the activity push that throws (the store read or the delete;
\* the submit returns false instead of throwing) ends the iteration with the
\* revision table untouched; every other step stays in the activity push or goes
\* on to the revision push, a submit that returned false directly so; and while
\* tracking is on the revision push is always attempted again later.
C23_RevisionPushUnlessThrow ==
  /\ [][\A l \in Loops :
          (loop[l].pc \in ActivitySteps /\ loop'[l] # loop[l])
            => IF GetUnsyncedLogs(l, FALSE) \/ DeleteLogs(l, FALSE)
               THEN /\ loop'[l].pc = "idle"
                    /\ commitTbl' = commitTbl
                    /\ ackedCommits' = ackedCommits
               ELSE /\ loop'[l].pc \in ActivitySteps \cup {"getUnsyncedCommits"}
                    /\ (loop[l].pc = "syncActivities" /\ ~loop'[l].success)
                         => loop'[l].pc = "getUnsyncedCommits"
                    /\ loop[l].pc = "deleteLogs" => loop'[l].pc = "getUnsyncedCommits"
       ]_vars
  /\ [](isTracking => <>AtRevisionPush)

\* C23 witness: an iteration whose submitActivities returned false is submitting
\* the unsynced revisions.
C23_RevisionsAfterFalseSubmit ==
  \E l \in Loops :
    /\ loop[l].pc = "syncCommits"
    /\ loop[l].logs # <<>>
    /\ ~loop[l].success
    /\ Ids(loop[l].logs) \subseteq failedLogs
    /\ loop[l].commits # <<>>
====
